---- MODULE Spec2Model ----
(***************************************************************************)
(* Model of the bitoku-sdk-agent client scripts.                           *)
(*                                                                         *)
(* helper.js exports transaction(tx, connection, wallet); the three        *)
(* scripts createClient, deleteClient and sendRequest each derive the      *)
(* program addresses, build the account list and the instruction payload,  *)
(* wrap them in a TransactionInstruction and await transaction().          *)
(*                                                                         *)
(* One behaviour is one run of one script.  The literals of a script       *)
(* (name, input, clientId, ...) are its arguments and are drawn from small *)
(* sets in Init.  The connection and the wallet are the collaborators      *)
(* handed to transaction(); what they answer is chosen by the environment. *)
(***************************************************************************)
EXTENDS Integers, Sequences, FiniteSets

VARIABLES
    script,      \* which script this run executes
    args,        \* the literals of the script
    connection,  \* kind of connection handed to transaction()
    wallet,      \* kind of wallet handed to transaction()
    pc,          \* position of the thread of control
    keys,        \* const keys
    data,        \* const data
    tx,          \* const tx = new TransactionInstruction(...)
    ix,          \* transaction(): const ix = new Transaction()...
    sign,        \* transaction(): const sign
    result,      \* how the run ended: value returned or error thrown
    confirmValue,\* what confirmTransaction resolved with (value.err)
    rpcLog,      \* calls made on the connection, in order
    sent,        \* raw transactions handed to sendRawTransaction
    chain,       \* the network's current checkpoint (blockhash) number
    printed      \* console.log output of the script

vars == <<script, args, connection, wallet, pc, keys, data, tx, ix, sign, result,
          confirmValue, rpcLog, sent, chain, printed>>

----------------------------------------------------------------------------
(* Bounds of the model *)

\* how many bytes past the field sizes the enumerated names and inputs go
MaxOver == 2
\* how many checkpoints the network issues during one run
MaxBlockhash == 2

(* Program constants *)

NAME_LEN == 128
DATA_LEN == 512
POSITION_LEN == 8
COMPUTE_UNITS == 600000
OP_CREATE_CLIENT == 1
OP_DELETE_CLIENT == 2
OP_SEND_REQUEST == 3

----------------------------------------------------------------------------
(* Buffers *)

\* Buffer.from(string): the UTF-8 encoding of a string, given as code points
\* (code points below 0x10000; surrogate pairs are not enumerated).
Utf8(cp) ==
    IF cp < 128 THEN <<cp>>
    ELSE IF cp < 2048 THEN <<192 + (cp \div 64), 128 + (cp % 64)>>
    ELSE <<224 + (cp \div 4096), 128 + ((cp \div 64) % 64), 128 + (cp % 64)>>

RECURSIVE BufferFromString(_)
BufferFromString(s) ==
    IF Len(s) = 0 THEN <<>>
    ELSE IF Len(s) = 1 THEN Utf8(s[1])
    ELSE LET h == Len(s) \div 2
         IN  BufferFromString(SubSeq(s, 1, h))
               \o BufferFromString(SubSeq(s, h + 1, Len(s)))

\* Buffer.from(Array.from({ length: n }, () => 0)): ToLength clamps a negative
\* length to 0, so a negative n gives the empty buffer and no error.
ZeroBuffer(n) == [i \in 1..(IF n > 0 THEN n ELSE 0) |-> 0]

\* Buffer.from(Int8Array.from([v]).buffer): one byte, v modulo 256.
Int8Byte(v) == <<v % 256>>

\* BN.toArray("le", len): little-endian magnitude, zero padded to len bytes.
RECURSIVE ToArrayLE(_, _)
ToArrayLE(n, len) ==
    IF len = 0 THEN <<>> ELSE <<n % 256>> \o ToArrayLE(n \div 256, len - 1)

----------------------------------------------------------------------------
(* Addresses and account lists *)

WalletPublicKey == <<"wallet">>
PROGRAM == <<"program">>
SystemProgramId == <<"SystemProgram">>
SYSVAR_RENT_PUBKEY == <<"SysvarRent">>
ComputeBudgetProgramId == <<"ComputeBudget">>

\* PublicKey.findProgramAddressSync(seeds, programId): [address, bump].  The
\* address is a function of the program and the seeds and of nothing else.
FindProgramAddressSync(seeds, programId) == <<<<"pda">> \o programId \o seeds, 255>>

bookkeeper == FindProgramAddressSync(<<"bookkeeper">>, PROGRAM)
request == FindProgramAddressSync(<<"request">> \o WalletPublicKey, PROGRAM)

AccountMeta(pubkey, isSigner, isWritable) ==
    [pubkey |-> pubkey, isSigner |-> isSigner, isWritable |-> isWritable]

CreateClientKeys ==
    << AccountMeta(WalletPublicKey, TRUE, TRUE),
       AccountMeta(bookkeeper[1], FALSE, TRUE),
       AccountMeta(request[1], FALSE, TRUE),
       AccountMeta(SystemProgramId, FALSE, FALSE),
       AccountMeta(SYSVAR_RENT_PUBKEY, FALSE, FALSE) >>

DeleteClientKeys_BookkeeperSigner ==
    << AccountMeta(WalletPublicKey, TRUE, TRUE),
       AccountMeta(bookkeeper[1], TRUE, TRUE),
       AccountMeta(request[1], FALSE, TRUE) >>

DeleteClientKeys ==
    << AccountMeta(WalletPublicKey, TRUE, TRUE),
       AccountMeta(bookkeeper[1], FALSE, TRUE),
       AccountMeta(request[1], FALSE, TRUE) >>

SendRequestKeys ==
    << AccountMeta(WalletPublicKey, TRUE, TRUE),
       AccountMeta(request[1], FALSE, TRUE) >>

KeysOf(s) ==
    CASE s = "createClient" -> CreateClientKeys
      [] s = "deleteClient" -> DeleteClientKeys
      [] s = "sendRequest"  -> SendRequestKeys

----------------------------------------------------------------------------
(* Instruction payloads *)

\* sendRequest.js 31-36 with the padding taken from the string length
NameField_CharLength(name) ==
    BufferFromString(name) \o ZeroBuffer(NAME_LEN - Len(name))

\* namee: the name followed by 128 - nameBuffer.length zero bytes
NameField(name) ==
    LET nameBuffer == BufferFromString(name)
        zeroesBuffer == ZeroBuffer(NAME_LEN - Len(nameBuffer))
    IN  nameBuffer \o zeroesBuffer

\* ip: the input followed by 512 - input.length zero bytes
DataField(str) ==
    LET input == BufferFromString(str)
        zeros == ZeroBuffer(DATA_LEN - Len(input))
    IN  input \o zeros

SendRequestData(a) ==
    Int8Byte(OP_SEND_REQUEST)
      \o Int8Byte(a.clientId)
      \o Int8Byte(a.requestType)
      \o NameField(a.name)
      \o Int8Byte(a.fileId)
      \o ToArrayLE(a.position, POSITION_LEN)
      \o DataField(a.input)

DeleteClientData(a) == Int8Byte(OP_DELETE_CLIENT) \o Int8Byte(a.clientId)

CreateClientData == Int8Byte(OP_CREATE_CLIENT)

DataOf(s, a) ==
    CASE s = "createClient" -> CreateClientData
      [] s = "deleteClient" -> DeleteClientData(a)
      [] s = "sendRequest"  -> SendRequestData(a)

TransactionInstruction(k, programId, d) ==
    [keys |-> k, programId |-> programId, data |-> d]

NoInstruction == TransactionInstruction(<<>>, <<>>, <<>>)

----------------------------------------------------------------------------
(* The envelope *)

\* ComputeBudgetProgram.setComputeUnitLimit({units}): discriminator 2 and the
\* units as 4 bytes little-endian, no accounts.
SetComputeUnitLimit(units) ==
    TransactionInstruction(<<>>, ComputeBudgetProgramId, <<2>> \o ToArrayLE(units, 4))

NewTransaction ==
    [instructions |-> <<>>, recentBlockhash |-> 0, feePayer |-> <<>>,
     signatures |-> <<>>]

Add(t, instruction) ==
    [t EXCEPT !.instructions = Append(t.instructions, instruction)]

\* helper.js 29-32 with the two add() calls exchanged
Envelope_OperationFirst(instruction) ==
    Add(Add(NewTransaction, instruction), SetComputeUnitLimit(COMPUTE_UNITS))

\* const ins = ...; const ix = new Transaction().add(ins).add(tx)
Envelope(instruction) ==
    LET ins == SetComputeUnitLimit(COMPUTE_UNITS)
    IN  Add(Add(NewTransaction, ins), instruction)

\* ix.serialize(): the wire form carries the signatures and the message
Serialize(t) ==
    [signatures |-> t.signatures,
     message |-> <<t.feePayer, t.recentBlockhash, t.instructions>>]

NoSignature == "none"
\* the identifier the network answers sendRawTransaction with
TxId(wire) == "txid"

----------------------------------------------------------------------------
(* Arguments of a run *)

\* "dir-2/file-1" and "test3", the literals of sendRequest.js
LiteralName == <<100, 105, 114, 45, 50, 47, 102, 105, 108, 101, 45, 49>>
LiteralInput == <<116, 101, 115, 116, 51>>

\* n lower-case letters
AsciiString(n) == [i \in 1..n |-> 97 + (i % 26)]
\* n characters, the first of them U+00E9 (two bytes in UTF-8)
AccentString(n) == [i \in 1..n |-> IF i = 1 THEN 233 ELSE 97 + (i % 26)]

Lengths(limit) == {0, limit - 1, limit} \cup {limit + k : k \in 1..MaxOver}

Names ==
    {LiteralName} \cup {AsciiString(n) : n \in Lengths(NAME_LEN)}
      \cup {AccentString(n) : n \in {NAME_LEN - 1, NAME_LEN}}

Inputs ==
    {LiteralInput} \cup {AsciiString(n) : n \in Lengths(DATA_LEN)}
      \cup {AccentString(n) : n \in {DATA_LEN - 1, DATA_LEN}}

Positions == {5, 258, 2147483647}

\* the script's own literals first
ByteArgs ==
    { [clientId |-> 0, requestType |-> 1, fileId |-> 45],
      [clientId |-> 7, requestType |-> 0, fileId |-> 200] }

SendRequestArgs ==
    { [clientId |-> b.clientId, requestType |-> b.requestType, name |-> n,
       fileId |-> b.fileId, position |-> p, input |-> d] :
         b \in ByteArgs, n \in Names, p \in Positions, d \in Inputs }

DeleteClientArgs ==
    { [clientId |-> c, requestType |-> 0, name |-> <<>>, fileId |-> 0,
       position |-> 0, input |-> <<>>] : c \in {0, 7} }

CreateClientArgs ==
    { [clientId |-> 0, requestType |-> 0, name |-> <<>>, fileId |-> 0,
       position |-> 0, input |-> <<>>] }

ArgsOf(s) ==
    CASE s = "createClient" -> CreateClientArgs
      [] s = "deleteClient" -> DeleteClientArgs
      [] s = "sendRequest"  -> SendRequestArgs

Scripts == {"createClient", "deleteClient", "sendRequest"}

----------------------------------------------------------------------------
(* Control flow *)

Ended == {"done", "threw"}

\* helper.js 33-39 with the await of confirmTransaction left out
NextPc_NoConfirm(p) ==
    CASE p = "keys" -> "data"
      [] p = "data" -> "instruction"
      [] p = "instruction" -> "call"
      [] p = "call" -> "fetch"
      [] p = "fetch" -> "awaitFetch"
      [] p = "awaitFetch" -> "feePayer"
      [] p = "feePayer" -> "sign"
      [] p = "sign" -> "send"
      [] p = "send" -> "awaitSend"
      [] p = "awaitSend" -> "return"
      [] p = "confirm" -> "awaitConfirm"
      [] p = "awaitConfirm" -> "return"
      [] p = "return" -> "print"
      [] p = "print" -> "done"

\* the statement that follows statement p when p completes normally
NextPc(p) ==
    CASE p = "keys" -> "data"
      [] p = "data" -> "instruction"
      [] p = "instruction" -> "call"
      [] p = "call" -> "fetch"
      [] p = "fetch" -> "awaitFetch"
      [] p = "awaitFetch" -> "feePayer"
      [] p = "feePayer" -> "sign"
      [] p = "sign" -> "send"
      [] p = "send" -> "awaitSend"
      [] p = "awaitSend" -> "confirm"
      [] p = "confirm" -> "awaitConfirm"
      [] p = "awaitConfirm" -> "return"
      [] p = "return" -> "print"
      [] p = "print" -> "done"

\* a rejection caught and ignored, the statements after it still run
OnThrow_Swallowed(p) == NextPc(p)

\* where control goes when statement p throws or an awaited promise rejects:
\* there is no try/catch, the error leaves transaction() and ends the script
OnThrow(p) == "threw"

NoResult == [kind |-> "none", value |-> "none"]
Returned(v) == [kind |-> "return", value |-> v]
Thrown(e) == [kind |-> "throw", value |-> e]

Throw(e) ==
    /\ pc' = OnThrow(pc)
    /\ result' = Thrown(e)

----------------------------------------------------------------------------
Init ==
    /\ script \in Scripts
    /\ args \in ArgsOf(script)
    /\ connection \in {"rpc", "silent"}
    /\ wallet \in {"keypair", "publicKeyOnly"}
    /\ pc = "keys"
    /\ keys = <<>>
    /\ data = <<>>
    /\ tx = NoInstruction
    /\ ix = NewTransaction
    /\ sign = NoSignature
    /\ result = NoResult
    /\ confirmValue = "none"
    /\ rpcLog = <<>>
    /\ sent = <<>>
    /\ chain = 1
    /\ printed = <<>>

----------------------------------------------------------------------------
(* The script up to the call of transaction() *)

BuildKeys ==
    /\ pc = "keys"
    /\ keys' = KeysOf(script)
    /\ pc' = NextPc(pc)
    /\ UNCHANGED <<script, args, connection, wallet, data, tx, ix, sign, result,
                   confirmValue, rpcLog, sent, chain, printed>>

BuildData ==
    /\ pc = "data"
    /\ data' = DataOf(script, args)
    /\ pc' = NextPc(pc)
    /\ UNCHANGED <<script, args, connection, wallet, keys, tx, ix, sign, result,
                   confirmValue, rpcLog, sent, chain, printed>>

\* sendRequest.js uses BN at line 56 and does not import it: where the host
\* defines no global BN the evaluation of data throws a ReferenceError.
BuildDataReferenceError ==
    /\ pc = "data"
    /\ script = "sendRequest"
    /\ Throw("ReferenceError")
    /\ UNCHANGED <<script, args, connection, wallet, keys, data, tx, ix, sign,
                   confirmValue, rpcLog, sent, chain, printed>>

BuildInstruction ==
    /\ pc = "instruction"
    /\ tx' = TransactionInstruction(keys, PROGRAM, data)
    /\ pc' = NextPc(pc)
    /\ UNCHANGED <<script, args, connection, wallet, keys, data, ix, sign, result,
                   confirmValue, rpcLog, sent, chain, printed>>

----------------------------------------------------------------------------
(* transaction(tx, connection, wallet) *)

CallTransaction ==
    /\ pc = "call"
    /\ ix' = Envelope(tx)
    /\ pc' = NextPc(pc)
    /\ UNCHANGED <<script, args, connection, wallet, keys, data, tx, sign, result,
                   confirmValue, rpcLog, sent, chain, printed>>

GetLatestBlockhash ==
    /\ pc = "fetch"
    /\ rpcLog' = Append(rpcLog, "getLatestBlockhash")
    /\ pc' = NextPc(pc)
    /\ UNCHANGED <<script, args, connection, wallet, keys, data, tx, ix, sign,
                   result, confirmValue, sent, chain, printed>>

GetLatestBlockhashResolves ==
    /\ pc = "awaitFetch"
    /\ ix' = [ix EXCEPT !.recentBlockhash = chain]
    /\ pc' = NextPc(pc)
    /\ UNCHANGED <<script, args, connection, wallet, keys, data, tx, sign, result,
                   confirmValue, rpcLog, sent, chain, printed>>

GetLatestBlockhashRejects ==
    /\ pc = "awaitFetch"
    /\ Throw("NetworkTransportError")
    /\ UNCHANGED <<script, args, connection, wallet, keys, data, tx, ix, sign,
                   confirmValue, rpcLog, sent, chain, printed>>

SetFeePayer ==
    /\ pc = "feePayer"
    /\ ix' = [ix EXCEPT !.feePayer = WalletPublicKey]
    /\ pc' = NextPc(pc)
    /\ UNCHANGED <<script, args, connection, wallet, keys, data, tx, sign, result,
                   confirmValue, rpcLog, sent, chain, printed>>

Sign ==
    /\ pc = "sign"
    /\ wallet = "keypair"
    /\ ix' = [ix EXCEPT !.signatures =
                <<[publicKey |-> WalletPublicKey,
                   recentBlockhash |-> ix.recentBlockhash]>>]
    /\ pc' = NextPc(pc)
    /\ UNCHANGED <<script, args, connection, wallet, keys, data, tx, sign, result,
                   confirmValue, rpcLog, sent, chain, printed>>

\* a wallet without secret key material cannot sign
SignThrows ==
    /\ pc = "sign"
    /\ wallet # "keypair"
    /\ Throw("SigningError")
    /\ UNCHANGED <<script, args, connection, wallet, keys, data, tx, ix, sign,
                   confirmValue, rpcLog, sent, chain, printed>>

SendRawTransaction ==
    /\ pc = "send"
    /\ sent' = Append(sent, Serialize(ix))
    /\ rpcLog' = Append(rpcLog, "sendRawTransaction")
    /\ pc' = NextPc(pc)
    /\ UNCHANGED <<script, args, connection, wallet, keys, data, tx, ix, sign,
                   result, confirmValue, chain, printed>>

\* the network accepts an envelope only while its checkpoint is current
SendResolves ==
    /\ pc = "awaitSend"
    /\ ix.recentBlockhash = chain
    /\ sign' = TxId(sent[Len(sent)])
    /\ pc' = NextPc(pc)
    /\ UNCHANGED <<script, args, connection, wallet, keys, data, tx, ix, result,
                   confirmValue, rpcLog, sent, chain, printed>>

SendRejects ==
    /\ pc = "awaitSend"
    /\ \E e \in {"BlockhashNotFound", "NetworkTransportError", "SimulationFailed"} :
          /\ (e = "BlockhashNotFound") => (ix.recentBlockhash # chain)
          /\ (e = "SimulationFailed") => (ix.recentBlockhash = chain)
          /\ Throw(e)
    /\ UNCHANGED <<script, args, connection, wallet, keys, data, tx, ix, sign,
                   confirmValue, rpcLog, sent, chain, printed>>

ConfirmTransaction ==
    /\ pc = "confirm"
    /\ rpcLog' = Append(rpcLog, "confirmTransaction")
    /\ pc' = NextPc(pc)
    /\ UNCHANGED <<script, args, connection, wallet, keys, data, tx, ix, sign,
                   result, confirmValue, sent, chain, printed>>

\* confirmTransaction resolves with { value: { err } }: err is null when the
\* transaction succeeded and the failure reason when it failed on-chain.
\* The resolved value is not bound to anything by the caller.
ConfirmResolves ==
    /\ pc = "awaitConfirm"
    /\ connection = "rpc"
    /\ \E err \in {"null", "InstructionError"} : confirmValue' = err
    /\ pc' = NextPc(pc)
    /\ UNCHANGED <<script, args, connection, wallet, keys, data, tx, ix, sign,
                   result, rpcLog, sent, chain, printed>>

ConfirmRejects ==
    /\ pc = "awaitConfirm"
    /\ connection = "rpc"
    /\ \E e \in {"TransactionExpiredTimeoutError", "NetworkTransportError"} :
          Throw(e)
    /\ UNCHANGED <<script, args, connection, wallet, keys, data, tx, ix, sign,
                   confirmValue, rpcLog, sent, chain, printed>>

Return ==
    /\ pc = "return"
    /\ result' = Returned(sign)
    /\ pc' = NextPc(pc)
    /\ UNCHANGED <<script, args, connection, wallet, keys, data, tx, ix, sign,
                   confirmValue, rpcLog, sent, chain, printed>>

\* const sign = await transaction(...); console.log(..., sign)
ConsoleLog ==
    /\ pc = "print"
    /\ result.kind = "return"
    /\ printed' = <<result.value>>
    /\ pc' = NextPc(pc)
    /\ UNCHANGED <<script, args, connection, wallet, keys, data, tx, ix, sign,
                   result, confirmValue, rpcLog, sent, chain>>

----------------------------------------------------------------------------
(* The network *)

\* time passes on the ledger: a new checkpoint replaces the current one
AdvanceBlockhash ==
    /\ pc \notin Ended
    /\ chain < MaxBlockhash
    /\ chain' = chain + 1
    /\ UNCHANGED <<script, args, connection, wallet, pc, keys, data, tx, ix, sign,
                   result, confirmValue, rpcLog, sent, printed>>

----------------------------------------------------------------------------
Next ==
    \/ BuildKeys
    \/ BuildData
    \/ BuildDataReferenceError
    \/ BuildInstruction
    \/ CallTransaction
    \/ GetLatestBlockhash
    \/ GetLatestBlockhashResolves
    \/ GetLatestBlockhashRejects
    \/ SetFeePayer
    \/ Sign
    \/ SignThrows
    \/ SendRawTransaction
    \/ SendResolves
    \/ SendRejects
    \/ ConfirmTransaction
    \/ ConfirmResolves
    \/ ConfirmRejects
    \/ Return
    \/ ConsoleLog
    \/ AdvanceBlockhash

Spec == Init /\ [][Next]_vars

\* The runs with the literals the scripts are shipped with.
LiteralInit ==
    /\ Init
    /\ (script = "sendRequest") =>
          (args.name = LiteralName /\ args.input = LiteralInput /\ args.position = 5)

\* Every step that is enabled is eventually taken: the event loop runs the
\* continuation of a settled promise, and a live connection settles its calls.
FairSpec == LiteralInit /\ [][Next]_vars /\ WF_vars(Next)

----------------------------------------------------------------------------
(* Properties *)

NameBytes == BufferFromString(args.name)
InputBytes == BufferFromString(args.input)

Oversized ==
    /\ script = "sendRequest"
    /\ (Len(NameBytes) > NAME_LEN \/ Len(InputBytes) > DATA_LEN)

Calls(method) == Len(SelectSeq(rpcLog, LAMBDA m : m = method))

IsPrefix(s, t) == Len(s) <= Len(t) /\ s = SubSeq(t, 1, Len(s))

RECURSIVE DecodeLE(_)
DecodeLE(b) == IF b = <<>> THEN 0 ELSE Head(b) + 256 * DecodeLE(Tail(b))

\* C1: a transaction confirmed as failed on-chain is never returned as a
\* success; the run ends with the network's failure reason thrown.
C1_FailureSurfaced ==
    (confirmValue \notin {"none", "null"}) =>
        /\ result.kind # "return"
        /\ (pc \in Ended => result = Thrown(confirmValue))

Caller == WalletPublicKey
RequestAccount == FindProgramAddressSync(<<"request">> \o Caller, PROGRAM)[1]
Bookkeeper == FindProgramAddressSync(<<"bookkeeper">>, PROGRAM)[1]

AccountTable(s) ==
    CASE s = "createClient" ->
           << <<Caller, TRUE, TRUE>>, <<Bookkeeper, FALSE, TRUE>>,
              <<RequestAccount, FALSE, TRUE>>, <<SystemProgramId, FALSE, FALSE>>,
              <<SYSVAR_RENT_PUBKEY, FALSE, FALSE>> >>
      [] s = "deleteClient" ->
           << <<Caller, TRUE, TRUE>>, <<Bookkeeper, FALSE, TRUE>>,
              <<RequestAccount, FALSE, TRUE>> >>
      [] s = "sendRequest" ->
           << <<Caller, TRUE, TRUE>>, <<RequestAccount, FALSE, TRUE>> >>

MatchesTable(k, s) ==
    /\ Len(k) = Len(AccountTable(s))
    /\ \A i \in 1..Len(k) :
          <<k[i].pubkey, k[i].isSigner, k[i].isWritable>> = AccountTable(s)[i]
    /\ \A i \in 1..Len(k) : k[i].isSigner <=> (i = 1)
    /\ k[1].pubkey = Caller

C5_AccountLists ==
    /\ (keys # <<>>) => MatchesTable(keys, script)
    /\ (tx # NoInstruction) => MatchesTable(tx.keys, script)
    /\ \A i \in 1..Len(sent) :
          LET instrs == sent[i].message[3]
          IN  MatchesTable(instrs[Len(instrs)].keys, script)

C5_Witness ==
    /\ script = "createClient"
    /\ Len(tx.keys) = 5
    /\ sent # <<>>

\* C6: every envelope that is signed or submitted holds exactly two
\* instructions, the compute-unit limit directive and then the operation.
DirectiveThenOperation(instrs) ==
    /\ Len(instrs) = 2
    /\ instrs[1] = SetComputeUnitLimit(COMPUTE_UNITS)
    /\ instrs[2] = tx
    /\ instrs[2].programId = PROGRAM

C6_DirectiveFirst ==
    /\ (ix.signatures # <<>>) => DirectiveThenOperation(ix.instructions)
    /\ \A i \in 1..Len(sent) : DirectiveThenOperation(sent[i].message[3])

C6_Witness ==
    /\ sent # <<>>
    /\ sign # NoSignature
    /\ script = "sendRequest"

\* C7: once the confirmation poll has started and the network never reports
\* a status, the call still ends, with a timeout outcome of its own.
C7_PollBounded ==
    (pc = "awaitConfirm" /\ connection = "silent")
        ~> (pc \in Ended /\ result = Thrown("ConfirmationTimeout"))

\* C8: a submission rejected for an expired checkpoint is retried with a
\* freshly fetched checkpoint; the run does not end on that rejection without
\* having fetched a second checkpoint.
C8_StaleCheckpointRetried ==
    (result = Thrown("BlockhashNotFound")) => Calls("getLatestBlockhash") >= 2

\* C9: the steps of the one operation of a run happen in the order fetch,
\* fee payer, sign, send, confirm; the identifier is returned only after the
\* confirmation poll has completed, and the statement after the await runs
\* only after that return.
C9_Sequential ==
    /\ IsPrefix(rpcLog, <<"getLatestBlockhash", "sendRawTransaction",
                         "confirmTransaction">>)
    /\ (ix.feePayer # <<>>) => (ix.recentBlockhash # 0)
    /\ (ix.signatures # <<>>) => (ix.feePayer # <<>>)
    /\ (sent # <<>>) => (ix.signatures # <<>> /\ sent = <<Serialize(ix)>>)
    /\ (Calls("confirmTransaction") > 0) => (sign # NoSignature)
    /\ (result.kind = "return") =>
          (Calls("confirmTransaction") = 1 /\ confirmValue # "none")
    /\ (printed # <<>>) => (result.kind = "return" /\ printed = <<sign>>)

C9_Witness ==
    /\ pc = "done"
    /\ printed = <<"txid">>
    /\ confirmValue = "null"

\* C10: a failed step ends the call: nothing is sent unless the checkpoint was
\* fetched and the envelope signed, nothing is polled unless the send
\* succeeded, and no call is made twice.
C10_FailStop ==
    /\ (result.kind = "throw") => (pc = "threw")
    /\ (ix.recentBlockhash = 0 \/ ix.signatures = <<>>) =>
          (sent = <<>> /\ Calls("sendRawTransaction") = 0)
    /\ (sign = NoSignature) => (Calls("confirmTransaction") = 0)
    /\ Len(sent) <= 1
    /\ \A m \in {"getLatestBlockhash", "sendRawTransaction", "confirmTransaction"} :
          Calls(m) <= 1

C10_Witness ==
    /\ pc = "threw"
    /\ result = Thrown("SigningError")
    /\ ix.recentBlockhash # 0
    /\ sent = <<>>

====
